---- MODULE Spec2Model ----
\* A model of package aerr (github.com/tafaquh/aerr): the fluent error builder,
\* its two finalizers Wrap and Err, and the renderings of a finalized error.
\*
\* The heap is explicit.  A Go map is a reference, so the attribute maps live in
\* `maps` and a builder or a link holds an index into it; a captured stack is a
\* slice that Wrap hands on by reference, so the stacks live in `stacks`.
\* Go strings that the code concatenates and that the properties take apart (the
\* messages) are sequences of characters; strings that are only compared (codes,
\* keys, values) are TLA+ strings.
\*
\* src/aerr.go holds two revisions of the package.  Spec, SpecLog and
\* SpecDefault are the current one (Wrap joins message, code and attributes
\* when it builds the link; LogValue renders the outermost link alone) with
\* the zerolog formatter of src/zerolog; SpecFlat is the flattened one
\* (WithoutStack, and a LogValue that walks the chain into an array).
\* SpecRender and SpecFlatRender add the goroutines that render an error
\* once it is built: LogValue and Traces of the current revision step by
\* step, with the pool of scratch buffers they share, and LogValue of the
\* flattened revision with the order in which it emits its fields.
EXTENDS Integers, Sequences, FiniteSets, TLC

\* ------------------------------------------------------------------ bounds
\* Number of finalized errors (links) the heap may hold.
MaxLinks == 2
\* Number of builders started with Code(...) or Message(...); each makes a map.
MaxBuilders == 2
\* Number of goroutines that render at the same time.
MaxThreads == 2

\* ------------------------------------------------------------------ inputs
\* The separator Wrap puts between two messages.
Sep == <<":", " ">>
\* Messages a caller passes to Message(...); <<>> is the empty string.
Msgs == {<<>>, <<"a">>, <<"b">>}
\* Codes a caller passes to Code(...); "" is the empty string.
Codes == {"", "X", "Y"}
\* Attribute keys and values a caller passes to With(...).
Keys == {"k"}
Vals == {"v1", "v2"}
\* Marks a key the map does not hold.
Absent == "absent"
\* The untyped nil a caller may pass as the value: With("k", nil).
Nil == "nil"
\* Values with nil among them.
LogVals == {"v1", Nil}
\* Program counter of main, the outermost frame of every captured stack; the
\* call site of the finalizer that creates link n has program counter n.
MainPC == 9
\* Program counter of the call a recursive function makes to itself: a finalizer
\* called at recursion depth d has d frames with this program counter between
\* its call site and main.
RecPC == 8
\* Recursion depths of the function a finalizer is called from: none, or two.
NoRecursion == {0}
Depths == {0, 2}

\* ------------------------------------------------------------- error values
\* A value of Go's interface type error: nil, a plain error (errors.New), or a
\* pointer to a finalized aerr.
NilErr == [kind |-> "nil", id |-> 0]
PlainErr == [kind |-> "plain", id |-> 1]
Ref(i) == [kind |-> "aerr", id |-> i]
\* The text errors.New was given.
PlainText == <<"t">>

VARIABLES
    builder,    \* the *aerr the caller is building: <<>> before the first
                \* Code(...)/Message(...), else <<b>>; starting a new builder
                \* drops the handle of the previous one
    maps,       \* heap of attribute maps: index -> [Keys -> Vals \cup {Absent}]
    stacks,     \* heap of captured stacks: index -> sequence of program counters
    links,      \* heap of finalized errors, in order of creation
    call,       \* the last call made and the value it returned
    pool,       \* bufPool: the scratch buffers at rest in the pool
    bufs,       \* heap of scratch buffers bufPool.New has made: index -> bytes
    threads     \* the goroutines that render: where each one is in LogValue
                \* and Traces, and its locals

\* What the goroutines that render work on.
render == <<pool, bufs, threads>>

vars == <<builder, maps, stacks, links, call, pool, bufs, threads>>

EmptyMap == [k \in Keys |-> Absent]
MapKeys(m) == {k \in Keys : m[k] # Absent}

IsAerr(err) == err.kind = "aerr"
Causes == {NilErr, PlainErr} \cup {Ref(i) : i \in 1..Len(links)}

\* Once the heap holds MaxLinks links no further link can be finalized, so what
\* the builder's message, code and flag are set to can no longer reach any
\* error: the calls that only set them stop there (With stays enabled, as the
\* map it writes is shared with the links already finalized).
CanFinalize == Len(links) < MaxLinks

\* A call that returns the builder itself.
Setter == [op |-> "set", cause |-> NilErr, ret |-> NilErr]

\* ------------------------------------------------------------------ builder
\* &aerr{code: code, attributes: make(map[string]any)} and
\* &aerr{msg: msg, attributes: make(map[string]any)}: skipStack is the zero
\* value, false.
NewBuilder(msg, code) ==
    [msg |-> msg, code |-> code, skipStack |-> FALSE,
     attributes |-> Len(maps) + 1]

\* func Code(code string) *aerr
Code(c) ==
    /\ Len(maps) < MaxBuilders
    /\ CanFinalize
    /\ builder' = <<NewBuilder(<<>>, c)>>
    /\ maps' = Append(maps, EmptyMap)
    /\ call' = Setter
    /\ UNCHANGED <<stacks, links, render>>

\* func Message(msg string) *aerr
Message(m) ==
    /\ Len(maps) < MaxBuilders
    /\ CanFinalize
    /\ builder' = <<NewBuilder(m, "")>>
    /\ maps' = Append(maps, EmptyMap)
    /\ call' = Setter
    /\ UNCHANGED <<stacks, links, render>>

\* func (b *aerr) Code(code string) *aerr
SetCode(c) ==
    /\ builder # <<>>
    /\ CanFinalize
    /\ builder' = [builder EXCEPT ![1].code = c]
    /\ call' = Setter
    /\ UNCHANGED <<maps, stacks, links, render>>

\* func (b *aerr) Message(msg string) *aerr
SetMessage(m) ==
    /\ builder # <<>>
    /\ CanFinalize
    /\ builder' = [builder EXCEPT ![1].msg = m]
    /\ call' = Setter
    /\ UNCHANGED <<maps, stacks, links, render>>

\* func (b *aerr) With(key string, value any) *aerr
\* (b.attributes is never nil: Code and Message both make the map)
With(k, v) ==
    /\ builder # <<>>
    /\ maps' = [maps EXCEPT ![builder[1].attributes][k] = v]
    /\ call' = Setter
    /\ UNCHANGED <<builder, stacks, links, render>>

\* func (b *aerr) StackTrace() *aerr
StackTrace ==
    /\ builder # <<>>
    /\ CanFinalize
    /\ builder' = [builder EXCEPT ![1].skipStack = FALSE]
    /\ call' = [Setter EXCEPT !.op = "StackTrace"]
    /\ UNCHANGED <<maps, stacks, links, render>>

\* func (b *aerr) WithoutStack() *aerr, of the flattened revision
WithoutStack ==
    /\ builder # <<>>
    /\ CanFinalize
    /\ builder' = [builder EXCEPT ![1].skipStack = TRUE]
    /\ call' = [Setter EXCEPT !.op = "WithoutStack"]
    /\ UNCHANGED <<maps, stacks, links, render>>

\* ------------------------------------------------------------ finalizers
\* The link a finalizer starts from: a copy of the builder's fields.  The map is
\* copied as a reference (attributes: b.attributes).  The h_ fields are history
\* the struct does not hold: the finalizer called and the cause it was given,
\* the builder's own message, code, flag and attributes at the call, and
\* whether this call captured a stack, and the recursion depth it was made at.
NewLink(b, op, err) ==
    [msg |-> b.msg, code |-> b.code, cause |-> err, stack |-> 0,
     skipStack |-> b.skipStack, attributes |-> b.attributes,
     h_op |-> op, h_cause |-> err, h_msg |-> b.msg, h_code |-> b.code,
     h_skip |-> b.skipStack, h_attrs |-> maps[b.attributes],
     h_captured |-> FALSE, h_depth |-> 0]

\* var err error = b: the caller hands the builder itself on as an error (the
\* *aerr that Code and Message return has Error(), so it is one) and keeps no
\* other handle on it.  The value was never finalized: no cause, no stack.
AsError ==
    /\ builder # <<>>
    /\ CanFinalize
    /\ links' = Append(links, NewLink(builder[1], "none", NilErr))
    /\ builder' = <<>>
    /\ call' = [op |-> "AsError", cause |-> NilErr, ret |-> Ref(Len(links) + 1)]
    /\ UNCHANGED <<maps, stacks, render>>

\* Wrap without its nil check.
WrapNeverReturnsNil(err) == FALSE

\* if err == nil { return nil }
WrapReturnsNil(err) == err = NilErr

\* if aErr.msg != "" { e.msg += ": " + aErr.msg }
WrapMsg(b, aErr) ==
    IF aErr.msg # <<>> THEN b.msg \o Sep \o aErr.msg ELSE b.msg

\* if b.code == "" { e.code = aErr.code }
WrapCode(b, aErr) ==
    IF b.code = "" THEN aErr.code ELSE b.code

\* Wrap that empties the map it merges into.
WrapAttrsCleared(b, aErr) == EmptyMap

\* The merge that keeps a key the builder already holds.
WrapAttrsOuterWins(b, aErr) ==
    [k \in Keys |->
        IF maps[b.attributes][k] # Absent
        THEN maps[b.attributes][k]
        ELSE maps[aErr.attributes][k]]

\* for key, value := range aErr.attributes { e.attributes[key] = value }
\* e.attributes is the builder's own map, so this is the map's new content.
WrapAttrs(b, aErr) ==
    [k \in Keys |->
        IF maps[aErr.attributes][k] # Absent
        THEN maps[aErr.attributes][k]
        ELSE maps[b.attributes][k]]

\* len(l.stack) > 0; index 0 is the nil slice
HasStack(l) == l.stack # 0 /\ Len(stacks[l.stack]) > 0

\* Wrap that never takes over the cause's stack.
WrapNeverReusesStack(aErr) == FALSE

\* if len(aErr.stack) > 0 { e.stack = aErr.stack; e.skipStack = true }
WrapReusesStack(aErr) == HasStack(aErr)

\* aErr, ok := err.(*aerr); if !ok { if !b.skipStack { e.stack = captureStack() } }
WrapCaptures(b, err) == ~IsAerr(err) /\ ~b.skipStack

\* if !b.skipStack { e.stack = captureStack() }
ErrCaptures(b) == ~b.skipStack

\* Wrap that forgets the error it was given.
WrapCauseDropped(err) == NilErr

\* cause: err, in the literal Wrap builds
WrapCause(err) == err

\* cause: cause, in the literal Err builds
ErrCause(cause) == cause

\* The link Wrap returns for a non-nil err; fresh is the index a newly captured
\* stack gets.
WrapLink(b, err, fresh) ==
    LET e == [NewLink(b, "Wrap", err) EXCEPT !.cause = WrapCause(err)] IN
    IF ~IsAerr(err)
    THEN IF WrapCaptures(b, err)
         THEN [e EXCEPT !.stack = fresh, !.h_captured = TRUE]
         ELSE e
    ELSE LET aErr == links[err.id]
             e1 == [e EXCEPT !.code = WrapCode(b, aErr),
                             !.msg = WrapMsg(b, aErr)]
         IN IF WrapReusesStack(aErr)
            THEN [e1 EXCEPT !.stack = aErr.stack, !.skipStack = TRUE]
            ELSE e1

\* func captureStack() []uintptr: the program counters from the finalizer's
\* caller (runtime.Callers(3, ...)) up to main; the loop appends at least one.
\* A caller at recursion depth d is on the stack d more times.
captureStack(site, depth) ==
    <<site>> \o [n \in 1..depth |-> RecPC] \o <<MainPC>>

\* func (b *aerr) Wrap(err error) error
Wrap(err, depth) ==
    /\ builder # <<>>
    /\ err \in Causes
    /\ IF WrapReturnsNil(err)
       THEN /\ call' = [op |-> "Wrap", cause |-> err, ret |-> NilErr]
            /\ UNCHANGED <<builder, maps, stacks, links, render>>
       ELSE /\ CanFinalize
            /\ LET b == builder[1]
                   e == [WrapLink(b, err, Len(stacks) + 1)
                            EXCEPT !.h_depth = depth]
               IN /\ links' = Append(links, e)
                  /\ stacks' = IF e.h_captured
                               THEN Append(stacks,
                                        captureStack(Len(links) + 1, depth))
                               ELSE stacks
                  /\ maps' = IF IsAerr(err)
                             THEN [maps EXCEPT ![b.attributes] =
                                      WrapAttrs(b, links[err.id])]
                             ELSE maps
                  /\ call' = [op |-> "Wrap", cause |-> err,
                              ret |-> Ref(Len(links) + 1)]
                  /\ UNCHANGED <<builder, render>>

\* The link Err returns.
ErrLink(b, cause, fresh) ==
    LET e == [NewLink(b, "Err", cause) EXCEPT !.cause = ErrCause(cause)] IN
    IF ErrCaptures(b)
    THEN [e EXCEPT !.stack = fresh, !.h_captured = TRUE]
    ELSE e

\* func (b *aerr) Err(cause error) error
Err(cause, depth) ==
    /\ builder # <<>>
    /\ cause \in Causes
    /\ CanFinalize
    /\ LET b == builder[1]
           e == [ErrLink(b, cause, Len(stacks) + 1) EXCEPT !.h_depth = depth]
       IN /\ links' = Append(links, e)
          /\ stacks' = IF e.h_captured
                       THEN Append(stacks, captureStack(Len(links) + 1, depth))
                       ELSE stacks
          /\ call' = [op |-> "Err", cause |-> cause,
                      ret |-> Ref(Len(links) + 1)]
          /\ UNCHANGED <<builder, maps, render>>

\* ------------------------------------------------------------- renderings
\* func (e *aerr) Error() string, for a non-nil e
Error(e) == e.msg

\* err.Error() of any non-nil error value
ErrorText(err) == IF IsAerr(err) THEN Error(links[err.id]) ELSE PlainText

\* func (e *aerr) Unwrap() error, for a non-nil e
Unwrap(e) == e.cause

\* errors.Unwrap(err): a plain error has no Unwrap method
UnwrapErr(err) == IF IsAerr(err) THEN Unwrap(links[err.id]) ELSE NilErr

\* errors.Is(err, target): compare, unwrap, repeat until nil
RECURSIVE Is(_, _)
Is(err, target) ==
    IF err = NilErr \/ target = NilErr THEN err = target
    ELSE IF err = target THEN TRUE
    ELSE IF UnwrapErr(err) = NilErr THEN FALSE
    ELSE Is(UnwrapErr(err), target)

\* func (b *aerr) GetCode() string
GetCode(e) == e.code

\* func (b *aerr) GetAttributes() map[string]any: the map's content now
GetAttributes(e) == maps[e.attributes]

\* runtime.CallersFrames: the file, function and line of a program counter;
\* program counter 0 is what Next() yields for an empty slice, the zero Frame.
Frame(pc) ==
    IF pc = 0 THEN [file |-> "", function |-> "", line |-> 0]
    ELSE IF pc = MainPC
         THEN [file |-> "/app/main.go", function |-> "main.main", line |-> 18]
         ELSE [file |-> "/app/svc.go", function |-> "main.Layer" \o ToString(pc),
               line |-> 20 + pc]

\* file + ".(" + function + "):" + strconv.AppendInt(line)
FormatFrame(f) == f.file \o ".(" \o f.function \o "):" \o ToString(f.line)

\* The program counters CallersFrames walks for a link's stack.
StackOf(e) == IF e.stack = 0 THEN <<>> ELSE stacks[e.stack]

\* func (b *aerr) Traces() []string: the loop formats a frame before it tests
\* `more`, so an empty stack yields the zero Frame once.
Traces(e) ==
    LET pcs == IF StackOf(e) = <<>> THEN <<0>> ELSE StackOf(e)
    IN [n \in 1..Len(pcs) |-> FormatFrame(Frame(pcs[n]))]

\* func (e *aerr) LogValue() slog.Value, for a non-nil e: the group's attrs in
\* the order they are appended, and the value of each.
LogValue(e) ==
    LET st == Traces(e)
        code == GetCode(e)
        attributes == GetAttributes(e)
    IN [order |-> <<"message">>
                  \o (IF Len(st) > 0 THEN <<"stacktrace">> ELSE <<>>)
                  \o (IF code # "" THEN <<"code">> ELSE <<>>)
                  \o (IF MapKeys(attributes) # {} THEN <<"attributes">> ELSE <<>>),
        message |-> Error(e),
        stacktrace |-> st,
        code |-> code,
        attributes |-> attributes]

\* (*aerr)(nil).LogValue(): slog.Value{}, a value with no attrs
NilLogValue ==
    [order |-> <<>>, message |-> <<>>, stacktrace |-> <<>>, code |-> "",
     attributes |-> EmptyMap]

\* ------------------------------------------------------- zerolog formatter
\* The zero value aerr{}: its map is nil (index 0).
ZeroAerr ==
    [msg |-> <<>>, code |-> "", cause |-> NilErr, stack |-> 0,
     skipStack |-> FALSE, attributes |-> 0]

\* func AsAerr(err error) (aerr, bool): e := aerr{}; errors.As(err, &e).
\* errors.As returns false at once for a nil err.  For any other err it first
\* checks the target: *target is of the struct type aerr, whose methods all
\* have pointer receivers, so aerr is neither an interface nor an error, and
\* errors.As panics ("errors: *target must be interface or implement error").
AsAerr(err) ==
    IF err = NilErr
    THEN [panics |-> FALSE, ok |-> FALSE, e |-> ZeroAerr]
    ELSE [panics |-> TRUE, ok |-> FALSE, e |-> ZeroAerr]

\* func AerrMarshalFunc(err error) interface{}: the marshaller object for an
\* aerr, err itself otherwise.
AerrMarshalFunc(err) ==
    LET r == AsAerr(err) IN
    IF r.panics THEN [panics |-> TRUE, object |-> FALSE]
    ELSE [panics |-> FALSE, object |-> r.ok]

\* func AerrStackMarshaler(err error) interface{}: the frames, or nil (<<>>)
AerrStackMarshaler(err) ==
    LET r == AsAerr(err) IN
    IF r.panics THEN [panics |-> TRUE, stack |-> <<>>]
    ELSE IF r.ok /\ Len(Traces(r.e)) > 0
         THEN [panics |-> FALSE, stack |-> Traces(r.e)]
         ELSE [panics |-> FALSE, stack |-> <<>>]

\* The event MarshalZerologObject leaves untouched.
NoFields ==
    [panics |-> FALSE, order |-> <<>>, code |-> "", attributes |-> EmptyMap]

\* func (m zerologErrorMarshaller) MarshalZerologObject(evt *zerolog.Event), for
\* m.err = err: the fields it adds to the event, in order.  A nil value is
\* skipped; the dict is added whenever the map holds a key.
MarshalZerologObject(err) ==
    IF err = NilErr THEN NoFields
    ELSE LET r == AsAerr(err) IN
         IF r.panics THEN [NoFields EXCEPT !.panics = TRUE]
         ELSE IF ~r.ok THEN NoFields
         ELSE LET code == GetCode(r.e)
                  attributes == GetAttributes(r.e)
              IN [panics |-> FALSE,
                  order |-> (IF code # "" THEN <<"code">> ELSE <<>>)
                            \o (IF MapKeys(attributes) # {}
                                THEN <<"attributes">> ELSE <<>>),
                  code |-> code,
                  attributes |-> [k \in Keys |->
                                    IF attributes[k] = Nil THEN Absent
                                    ELSE attributes[k]]]

\* ---------------------------------------------------- flattened revision
\* The revision of aerr.go that logs a chain as an array of records.  Its
\* builder is the one above with WithoutStack() added (its map is called
\* fields); its Wrap and its LogValue differ.

\* Err that captures whatever the flag says.
FlatErrAlwaysCaptures(b) == TRUE

\* if !b.skipStack { e.stack = captureStack() }
FlatErrCaptures(b) == ~b.skipStack

\* The flattened Wrap without the flag it sets on a link that takes over the
\* cause's stack.
FlatWrapLinkShowsReused(b, err, fresh) ==
    LET e == NewLink(b, "Wrap", err) IN
    IF IsAerr(err) /\ HasStack(links[err.id])
    THEN [e EXCEPT !.stack = links[err.id].stack]
    ELSE IF ~b.skipStack
         THEN [e EXCEPT !.stack = fresh, !.h_captured = TRUE]
         ELSE e

\* The link the flattened Wrap returns for a non-nil err: the cause's stack if
\* it is an aerr with one, else a new capture unless the flag forbids it.
\* Message, code and fields stay the builder's own.
FlatWrapLink(b, err, fresh) ==
    LET e == NewLink(b, "Wrap", err) IN
    IF IsAerr(err) /\ HasStack(links[err.id])
    THEN [e EXCEPT !.stack = links[err.id].stack, !.skipStack = TRUE]
    ELSE IF ~b.skipStack
         THEN [e EXCEPT !.stack = fresh, !.h_captured = TRUE]
         ELSE e

\* func (b *aerr) Wrap(err error) error, flattened revision
FlatWrap(err, depth) ==
    /\ builder # <<>>
    /\ err \in Causes
    /\ IF err = NilErr
       THEN /\ call' = [op |-> "Wrap", cause |-> err, ret |-> NilErr]
            /\ UNCHANGED <<builder, maps, stacks, links, render>>
       ELSE /\ CanFinalize
            /\ LET e == [FlatWrapLink(builder[1], err, Len(stacks) + 1)
                            EXCEPT !.h_depth = depth]
               IN /\ links' = Append(links, e)
                  /\ stacks' = IF e.h_captured
                               THEN Append(stacks,
                                        captureStack(Len(links) + 1, depth))
                               ELSE stacks
                  /\ call' = [op |-> "Wrap", cause |-> err,
                              ret |-> Ref(Len(links) + 1)]
                  /\ UNCHANGED <<builder, maps, render>>

\* The link the flattened Err returns.
FlatErrLink(b, cause, fresh) ==
    LET e == NewLink(b, "Err", cause) IN
    IF FlatErrCaptures(b)
    THEN [e EXCEPT !.stack = fresh, !.h_captured = TRUE]
    ELSE e

\* func (b *aerr) Err(cause error) error, flattened revision
FlatErr(cause, depth) ==
    /\ builder # <<>>
    /\ cause \in Causes
    /\ CanFinalize
    /\ LET e == [FlatErrLink(builder[1], cause, Len(stacks) + 1)
                    EXCEPT !.h_depth = depth]
       IN /\ links' = Append(links, e)
          /\ stacks' = IF e.h_captured
                       THEN Append(stacks, captureStack(Len(links) + 1, depth))
                       ELSE stacks
          /\ call' = [op |-> "Err", cause |-> cause,
                      ret |-> Ref(Len(links) + 1)]
          /\ UNCHANGED <<builder, maps, render>>

\* fmt.Sprintf("%s (%s:%d)", frame.Function, frame.File, frame.Line)
FlatFormatFrame(f) ==
    f.function \o " (" \o f.file \o ":" \o ToString(f.line) \o ")"

\* An errMap that holds the message and nothing else.
FlatRecordMessageOnly(e) ==
    [keys |-> {"message"}, message |-> e.msg, code |-> "", data |-> EmptyMap,
     stacktrace |-> <<>>, error |-> <<>>]

\* errMap of one *aerr of the chain: message always, code, data and
\* stacktrace when there is something to show; keys is the map's key set.
FlatRecord(e) ==
    LET shown == ~e.skipStack /\ Len(StackOf(e)) > 0 IN
    [keys |-> {"message"}
              \cup (IF e.code # "" THEN {"code"} ELSE {})
              \cup (IF MapKeys(maps[e.attributes]) # {} THEN {"data"} ELSE {})
              \cup (IF shown THEN {"stacktrace"} ELSE {}),
     message |-> e.msg,
     code |-> e.code,
     data |-> maps[e.attributes],
     stacktrace |-> IF shown
                    THEN [n \in 1..Len(StackOf(e)) |->
                            FlatFormatFrame(Frame(StackOf(e)[n]))]
                    ELSE <<>>,
     error |-> <<>>]

\* map[string]any{"error": current.Error()}, for the plain error ending a chain
FlatTerminal(err) ==
    [keys |-> {"error"}, message |-> <<>>, code |-> "", data |-> EmptyMap,
     stacktrace |-> <<>>, error |-> ErrorText(err)]

\* The walk of LogValue: one record per *aerr from current on, then one for a
\* plain error, which ends the walk; nil ends it too.
RECURSIVE FlatErrors(_)
FlatErrors(current) ==
    IF current = NilErr THEN <<>>
    ELSE IF IsAerr(current)
         THEN <<FlatRecord(links[current.id])>>
              \o FlatErrors(links[current.id].cause)
         ELSE <<FlatTerminal(current)>>

\* func (e *aerr) LogValue() slog.Value, flattened revision, for the non-nil
\* *aerr err: a single record is returned as the group itself, more are
\* returned as the array "errors".
FlatLogValue(err) ==
    LET errors == FlatErrors(err) IN
    [array |-> Len(errors) # 1, errors |-> errors]

\* ------------------------------------------------------ concurrent renders
\* The goroutines that render.
Threads == 1..MaxThreads

\* Buffers bufPool.New may make: one per goroutine is all that can be in use.
MaxBufs == MaxThreads

\* A goroutine that has not called LogValue: no link, no buffer, no strings.
Idle ==
    [pc |-> "idle", link |-> 0, n |-> 0, buf |-> 0, msg |-> <<>>,
     out |-> <<>>, res |-> NilLogValue, h_conc |-> FALSE]

\* The goroutine is inside LogValue.
Active(th) == th.pc \notin {"idle", "done"}

\* No goroutine has started to render: the chain is still being built.
AllIdle == \A t \in Threads : threads[t].pc = "idle"

\* frames := runtime.CallersFrames(b.stack): the program counters the loop of
\* Traces goes through; the zero Frame once for an empty stack.
FramesToFormat(e) == IF StackOf(e) = <<>> THEN <<0>> ELSE StackOf(e)

\* A pool whose Get leaves the buffer in the pool.
PoolKeeps(p, b) == p

\* bufPool.Get() removes the item it returns from the pool.
PoolTake(p, b) == p \ {b}

\* A string that shares the buffer's bytes instead of copying them.
StringAliases(b) == [buf |-> b, text |-> ""]

\* frameStr := string(buf): the conversion copies the bytes; the string has
\* no tie to the buffer (buf |-> 0).
StringOf(b) == [buf |-> 0, text |-> bufs[b]]

\* The characters of a string now.
Text(s) == IF s.buf = 0 THEN s.text ELSE bufs[s.buf]

\* e.LogValue() is entered for link i: attrs gets the message, and Traces
\* starts on the first frame.  h_conc records, for this goroutine and for
\* those already inside LogValue, that renders overlap.
StartRender(t, i) ==
    /\ threads[t].pc = "idle"
    /\ i \in 1..Len(links)
    /\ threads' =
          [u \in Threads |->
              IF u = t
              THEN [Idle EXCEPT !.pc = "get", !.link = i, !.n = 1,
                                !.msg = Error(links[i]),
                                !.h_conc = \E w \in Threads :
                                               Active(threads[w])]
              ELSE IF Active(threads[u])
                   THEN [threads[u] EXCEPT !.h_conc = TRUE]
                   ELSE threads[u]]
    /\ UNCHANGED <<builder, maps, stacks, links, call, pool, bufs>>

\* bufPtr := bufPool.Get().(*[]byte), served from the pool: any buffer at rest
PoolGet(t, b) ==
    /\ threads[t].pc = "get"
    /\ b \in pool
    /\ pool' = PoolTake(pool, b)
    /\ threads' = [threads EXCEPT ![t].buf = b, ![t].pc = "file"]
    /\ UNCHANGED <<builder, maps, stacks, links, call, bufs>>

\* bufPool.Get() served by New (Get may ignore what is in the pool):
\* b := make([]byte, 0, 256)
PoolNew(t) ==
    /\ threads[t].pc = "get"
    /\ Len(bufs) < MaxBufs
    /\ bufs' = Append(bufs, "")
    /\ threads' = [threads EXCEPT ![t].buf = Len(bufs) + 1, ![t].pc = "file"]
    /\ UNCHANGED <<builder, maps, stacks, links, call, pool>>

\* buf := (*bufPtr)[:0]; buf = append(buf, frame.File...);
\* buf = append(buf, '.', '(')
AppendFile(t) ==
    LET th == threads[t]
        f == Frame(FramesToFormat(links[th.link])[th.n])
    IN /\ th.pc = "file"
       /\ bufs' = [bufs EXCEPT ![th.buf] = f.file \o ".("]
       /\ threads' = [threads EXCEPT ![t].pc = "func"]
       /\ UNCHANGED <<builder, maps, stacks, links, call, pool>>

\* buf = append(buf, frame.Function...); buf = append(buf, ')', ':');
\* buf = strconv.AppendInt(buf, int64(frame.Line), 10)
AppendFunc(t) ==
    LET th == threads[t]
        f == Frame(FramesToFormat(links[th.link])[th.n])
    IN /\ th.pc = "func"
       /\ bufs' = [bufs EXCEPT ![th.buf] =
                      @ \o f.function \o "):" \o ToString(f.line)]
       /\ threads' = [threads EXCEPT ![t].pc = "copy"]
       /\ UNCHANGED <<builder, maps, stacks, links, call, pool>>

\* frameStr := string(buf) ... stacktrace = append(stacktrace, frameStr)
CopyOut(t) ==
    LET th == threads[t] IN
    /\ th.pc = "copy"
    /\ threads' = [threads EXCEPT ![t].out = Append(@, StringOf(th.buf)),
                                  ![t].pc = "put"]
    /\ UNCHANGED <<builder, maps, stacks, links, call, pool, bufs>>

\* *bufPtr = buf; bufPool.Put(bufPtr); if !more { break }
PoolPut(t) ==
    LET th == threads[t]
        more == th.n < Len(FramesToFormat(links[th.link]))
    IN /\ th.pc = "put"
       /\ pool' = pool \cup {th.buf}
       /\ threads' = [threads EXCEPT ![t].buf = 0,
                                     ![t].n = IF more THEN @ + 1 ELSE @,
                                     ![t].pc = IF more THEN "get" ELSE "rest"]
       /\ UNCHANGED <<builder, maps, stacks, links, call, bufs>>

\* The rest of LogValue once Traces has returned: stacktrace, code and
\* attributes are appended to attrs, and the group is returned.
FinishRender(t) ==
    LET th == threads[t]
        e == links[th.link]
        st == [n \in 1..Len(th.out) |-> Text(th.out[n])]
        code == GetCode(e)
        attributes == GetAttributes(e)
    IN /\ th.pc = "rest"
       /\ threads' =
             [threads EXCEPT
                ![t].pc = "done",
                ![t].res =
                   [order |-> <<"message">>
                        \o (IF Len(st) > 0 THEN <<"stacktrace">> ELSE <<>>)
                        \o (IF code # "" THEN <<"code">> ELSE <<>>)
                        \o (IF MapKeys(attributes) # {}
                            THEN <<"attributes">> ELSE <<>>),
                    message |-> th.msg,
                    stacktrace |-> st,
                    code |-> code,
                    attributes |-> attributes]]
       /\ UNCHANGED <<builder, maps, stacks, links, call, pool, bufs>>

\* The orders in which `range` may yield the keys of a Go map: the language
\* leaves the iteration order unspecified, so any of them.
RECURSIVE RangeOrders(_)
RangeOrders(keys) ==
    IF keys = {} THEN {<<>>}
    ELSE UNION {{<<k>> \o s : s \in RangeOrders(keys \ {k})} : k \in keys}

\* The orders in which the flattened LogValue may emit the fields of its
\* value: a single record's keys as `range errors[0]` yields them, and the
\* one field "errors" for an array.
FlatFieldOrders(v) ==
    IF v.array THEN {<<"errors">>} ELSE RangeOrders(v.errors[1].keys)

\* e.LogValue() of the flattened revision for link i, from entry to return;
\* it uses no shared buffer.
FlatRender(t, i, order) ==
    /\ threads[t].pc = "idle"
    /\ i \in 1..Len(links)
    /\ order \in FlatFieldOrders(FlatLogValue(Ref(i)))
    /\ threads' =
          [threads EXCEPT
             ![t] = [Idle EXCEPT
                       !.pc = "done", !.link = i,
                       !.res = [array |-> FlatLogValue(Ref(i)).array,
                                order |-> order,
                                errors |-> FlatLogValue(Ref(i)).errors]]]
    /\ UNCHANGED <<builder, maps, stacks, links, call, pool, bufs>>

\* ------------------------------------------------------------ specification
Init ==
    /\ builder = <<>>
    /\ maps = <<>>
    /\ stacks = <<>>
    /\ links = <<>>
    /\ call = [op |-> "init", cause |-> NilErr, ret |-> NilErr]
    /\ pool = {}
    /\ bufs = <<>>
    /\ threads = [t \in Threads |-> Idle]

Next ==
    \/ \E c \in Codes : Code(c)
    \/ \E m \in Msgs : Message(m)
    \/ \E c \in Codes : SetCode(c)
    \/ \E m \in Msgs : SetMessage(m)
    \/ \E k \in Keys, v \in Vals : With(k, v)
    \/ StackTrace
    \/ \E err \in Causes, d \in NoRecursion : Wrap(err, d)
    \/ \E cause \in Causes, d \in NoRecursion : Err(cause, d)

Spec == Init /\ [][Next]_vars

\* The same program with callers that log what they build: fewer texts, but
\* nil among the attribute values, finalizers called from recursive functions,
\* and builders handed on as errors without a finalizer.
LogMsgs == {<<"a">>}
LogCodes == {"X"}

NextLog ==
    \/ \E c \in LogCodes : Code(c)
    \/ \E m \in LogMsgs : Message(m)
    \/ \E c \in LogCodes : SetCode(c)
    \/ \E m \in LogMsgs : SetMessage(m)
    \/ \E k \in Keys, v \in LogVals : With(k, v)
    \/ StackTrace
    \/ AsError
    \/ \E err \in Causes, d \in Depths : Wrap(err, d)
    \/ \E cause \in Causes, d \in Depths : Err(cause, d)

SpecLog == Init /\ [][NextLog]_vars

\* The flattened revision.
FlatMsgs == {<<"a">>, <<"b">>}
FlatCodes == {"X"}

NextFlat ==
    \/ \E c \in FlatCodes : Code(c)
    \/ \E m \in FlatMsgs : Message(m)
    \/ \E c \in FlatCodes : SetCode(c)
    \/ \E m \in FlatMsgs : SetMessage(m)
    \/ \E k \in Keys, v \in Vals : With(k, v)
    \/ StackTrace
    \/ WithoutStack
    \/ \E err \in Causes, d \in NoRecursion : FlatWrap(err, d)
    \/ \E cause \in Causes, d \in NoRecursion : FlatErr(cause, d)

SpecFlat == Init /\ [][NextFlat]_vars

\* Callers that never call StackTrace().
NextDefault ==
    \/ \E c \in LogCodes : Code(c)
    \/ \E m \in LogMsgs : Message(m)
    \/ \E c \in LogCodes : SetCode(c)
    \/ \E m \in LogMsgs : SetMessage(m)
    \/ \E k \in Keys, v \in LogVals : With(k, v)
    \/ \E err \in Causes, d \in Depths : Wrap(err, d)
    \/ \E cause \in Causes, d \in Depths : Err(cause, d)

SpecDefault == Init /\ [][NextDefault]_vars

\* Callers that build a chain and then render the error the last finalizer
\* returned from several goroutines at once.  The builder is confined to one
\* goroutine and is done before the first render starts; the renders
\* interleave at every pool operation and every access to a buffer.
RenderVals == {"v1"}

NextRender ==
    \/ AllIdle /\ \E c \in LogCodes : Code(c)
    \/ AllIdle /\ \E m \in LogMsgs : Message(m)
    \/ AllIdle /\ \E k \in Keys, v \in RenderVals : With(k, v)
    \/ AllIdle /\ \E err \in Causes, d \in NoRecursion : Wrap(err, d)
    \/ AllIdle /\ \E cause \in Causes, d \in NoRecursion : Err(cause, d)
    \/ \E t \in Threads : IsAerr(call.ret) /\ StartRender(t, call.ret.id)
    \/ \E t \in Threads, b \in pool : PoolGet(t, b)
    \/ \E t \in Threads : PoolNew(t)
    \/ \E t \in Threads : AppendFile(t)
    \/ \E t \in Threads : AppendFunc(t)
    \/ \E t \in Threads : CopyOut(t)
    \/ \E t \in Threads : PoolPut(t)
    \/ \E t \in Threads : FinishRender(t)

SpecRender == Init /\ [][NextRender]_vars

\* The same callers with the flattened revision.
NextFlatRender ==
    \/ AllIdle /\ \E c \in FlatCodes : Code(c)
    \/ AllIdle /\ \E k \in Keys, v \in RenderVals : With(k, v)
    \/ AllIdle /\ WithoutStack
    \/ AllIdle /\ \E err \in Causes, d \in NoRecursion : FlatWrap(err, d)
    \/ AllIdle /\ \E cause \in Causes, d \in NoRecursion : FlatErr(cause, d)
    \/ \E t \in Threads :
          /\ IsAerr(call.ret)
          /\ \E order \in FlatFieldOrders(FlatLogValue(call.ret)) :
                FlatRender(t, call.ret.id, order)

SpecFlatRender == Init /\ [][NextFlatRender]_vars

\* ------------------------------------------------------- chains and strings
\* The composite links of the chain of err, outermost first, as the walk by
\* Unwrap meets them.
RECURSIVE ChainLinks(_)
ChainLinks(err) ==
    IF IsAerr(err) THEN <<err.id>> \o ChainLinks(UnwrapErr(err)) ELSE <<>>

\* Where the chain of err ends: nil, or the plain error.
RECURSIVE Terminal(_)
Terminal(err) == IF IsAerr(err) THEN Terminal(UnwrapErr(err)) ELSE err

\* The errors of the chain of err as the callers built it: err, the cause it was
\* given, that one's cause, and so on.
RECURSIVE GivenChain(_)
GivenChain(err) ==
    IF err = NilErr THEN {}
    ELSE IF IsAerr(err) THEN {err} \cup GivenChain(links[err.id].h_cause)
    ELSE {err}

\* The messages ms joined with ": ".
RECURSIVE JoinSep(_)
JoinSep(ms) ==
    IF ms = <<>> THEN <<>>
    ELSE IF Len(ms) = 1 THEN ms[1]
    ELSE ms[1] \o Sep \o JoinSep(Tail(ms))

StartsWith(s, p) == Len(s) >= Len(p) /\ SubSeq(s, 1, Len(p)) = p
EndsWith(s, p) == Len(s) >= Len(p) /\ SubSeq(s, Len(s) - Len(p) + 1, Len(s)) = p
Contains(s, p) ==
    \E n \in 1..(Len(s) - Len(p) + 1) : SubSeq(s, n, n + Len(p) - 1) = p

\* s, cut at every ": ", has an empty piece.
HasEmptySegment(s) ==
    StartsWith(s, Sep) \/ EndsWith(s, Sep) \/ Contains(s, Sep \o Sep)

\* t is the last ": "-separated piece of s.
LastSegmentIs(s, t) == s = t \/ EndsWith(s, Sep \o t)

\* The own messages and own codes of the links of a chain, outermost first.
OwnMsgs(err) ==
    LET ch == ChainLinks(err) IN [n \in 1..Len(ch) |-> links[ch[n]].h_msg]
OwnCodes(err) ==
    LET ch == ChainLinks(err) IN [n \in 1..Len(ch) |-> links[ch[n]].h_code]

\* The first non-empty code of cs, "" if there is none.
RECURSIVE FirstCode(_)
FirstCode(cs) ==
    IF cs = <<>> THEN ""
    ELSE IF cs[1] # "" THEN cs[1]
    ELSE FirstCode(Tail(cs))

LinkIds == 1..Len(links)
Finalized == call.op \in {"Wrap", "Err"} /\ call.ret # NilErr

\* ------------------------------------------------------------------ claims
\* C1: Wrap(nil) returns nil and produces no error value, whatever code,
\* message, attributes and stack flag the builder holds.
C1_WrapNilReturnsNil ==
    /\ (call.op = "Wrap" /\ call.cause = NilErr) => call.ret = NilErr
    /\ \A i \in LinkIds : links[i].h_op = "Wrap" => links[i].h_cause # NilErr

C1_Witness ==
    /\ call.op = "Wrap" /\ call.cause = NilErr
    /\ builder # <<>>
    /\ builder[1].code # "" /\ builder[1].msg # <<>>
    /\ MapKeys(maps[builder[1].attributes]) # {}
    /\ links # <<>>

\* C2: the cause is never swallowed.  Unwrap of every error Wrap or Err
\* returned is exactly the error the call was given (nil included, for Err), and
\* errors.Is of a chain's outermost error against every error of the chain
\* succeeds.
C2_CauseNeverSwallowed ==
    /\ Finalized => UnwrapErr(call.ret) = call.cause
    /\ \A i \in LinkIds : Unwrap(links[i]) = links[i].h_cause
    /\ \A i \in LinkIds : \A t \in GivenChain(Ref(i)) : Is(Ref(i), t)

C2_Witness ==
    \E i \in LinkIds :
        /\ links[i].h_op = "Wrap" /\ IsAerr(links[i].h_cause)
        /\ links[links[i].h_cause.id].h_op = "Wrap"
        /\ links[links[i].h_cause.id].h_cause = PlainErr
        /\ Is(Ref(i), PlainErr) /\ Is(Ref(i), links[i].h_cause)

\* C3: Error() of a link is that link's own message verbatim, the message the
\* builder held when Wrap or Err was called, also under a composite cause that
\* has a message.
C3_ErrorIsOwnMessage ==
    \A i \in LinkIds : Error(links[i]) = links[i].h_msg

\* C4: the rendered message of a chain of composite links is their own
\* messages joined with ": ", outermost first, whether the links were made by
\* Wrap or by Err.  (Stated for chains that end in nil and whose messages are
\* all non-empty, so that nothing but the joining is at stake.)
C4_MessagesJoined ==
    \A i \in LinkIds :
        (/\ Terminal(Ref(i)) = NilErr
         /\ \A n \in 1..Len(OwnMsgs(Ref(i))) : OwnMsgs(Ref(i))[n] # <<>>)
        => LogValue(links[i]).message = JoinSep(OwnMsgs(Ref(i)))

\* C5: when a chain ends in a plain error with text t, t is the last
\* ": "-separated piece of the rendered message.
C5_TerminalTextRendered ==
    \A i \in LinkIds :
        Terminal(Ref(i)) = PlainErr
        => LastSegmentIs(LogValue(links[i]).message, PlainText)

\* C6: links with an empty message add nothing to the rendered message: it
\* never starts or ends with ": ", never holds an empty piece between two
\* separators, and is empty when the chain has no non-empty message.
C6_NoEmptySegment ==
    \A i \in LinkIds :
        /\ ~HasEmptySegment(LogValue(links[i]).message)
        /\ (/\ Terminal(Ref(i)) = NilErr
            /\ \A n \in 1..Len(OwnMsgs(Ref(i))) : OwnMsgs(Ref(i))[n] = <<>>)
           => LogValue(links[i]).message = <<>>

\* C7: the one rendered code of a chain is the own code of the outermost link
\* that has a non-empty one, whatever codes the links further in hold; with no
\* code in the chain no code is rendered.
C7_OutermostCode ==
    \A i \in LinkIds :
        LET v == LogValue(links[i]) IN
        /\ v.code = FirstCode(OwnCodes(Ref(i)))
        /\ FirstCode(OwnCodes(Ref(i))) = ""
           => \A n \in 1..Len(v.order) : v.order[n] # "code"

\* The value the builder held for k when the finalizer that just returned was
\* called, and the value the composite cause it was given holds for k.
OuterValue(k) == links[call.ret.id].h_attrs[k]
InnerValue(k) == maps[links[call.cause.id].attributes][k]
Collides(k) ==
    /\ OuterValue(k) # Absent
    /\ InnerValue(k) # Absent
    /\ OuterValue(k) # InnerValue(k)

\* C8, as claimed: when the new link and its composite cause set the same key
\* with different values, the merged attributes hold the outer link's value.
C8_OuterValueWins ==
    (Finalized /\ IsAerr(call.cause)) =>
        \A k \in Keys :
            Collides(k) =>
                LogValue(links[call.ret.id]).attributes[k] = OuterValue(k)

\* C8, amended: when Wrap returns a link over a composite cause, the link's
\* attributes hold the cause's value for every key the cause holds, so on a key
\* both set the inner value overwrites the outer one; a key only the builder
\* set keeps the builder's value.
C8_InnerValueWins ==
    (Finalized /\ call.op = "Wrap" /\ IsAerr(call.cause)) =>
        \A k \in Keys :
            LogValue(links[call.ret.id]).attributes[k] =
                IF InnerValue(k) # Absent THEN InnerValue(k) ELSE OuterValue(k)

C8_Witness ==
    /\ Finalized /\ call.op = "Wrap" /\ IsAerr(call.cause)
    /\ \E k \in Keys :
        /\ Collides(k)
        /\ LogValue(links[call.ret.id]).attributes[k] = InnerValue(k)

\* C9: the rendered attributes of a chain hold every key that any composite
\* link of the chain was finalized with, whether the links were made by Wrap or
\* by Err over a composite cause.
C9_UnionOfKeys ==
    \A i \in LinkIds :
        \A n \in 1..Len(ChainLinks(Ref(i))) :
            MapKeys(links[ChainLinks(Ref(i))[n]].h_attrs)
                \subseteq MapKeys(LogValue(links[i]).attributes)

\* The link whose capture a link's stack comes from: a link that Wrap made
\* over a composite cause with a stack has it from where the cause has it.
RECURSIVE Origin(_)
Origin(i) ==
    IF /\ links[i].h_op = "Wrap"
       /\ IsAerr(links[i].h_cause)
       /\ HasStack(links[links[i].h_cause.id])
    THEN Origin(links[i].h_cause.id)
    ELSE i

\* C10: deepest captured stack wins.  A link Wrap made over a composite cause
\* that carries a non-empty stack holds that very stack and captured none of
\* its own, stack capture enabled or not; so the rendered stack of a link is
\* the frames captured by the innermost capturing link under it, and every
\* stack on the heap was captured by exactly one link.
C10_DeepestStackWins ==
    /\ \A i \in LinkIds :
        (/\ links[i].h_op = "Wrap"
         /\ IsAerr(links[i].h_cause)
         /\ HasStack(links[links[i].h_cause.id]))
        => /\ links[i].stack = links[links[i].h_cause.id].stack
           /\ ~links[i].h_captured
           /\ links[Origin(i)].h_captured
           /\ LogValue(links[i]).stacktrace = Traces(links[Origin(i)])
           /\ LogValue(links[i]).stacktrace =
                LET pcs == captureStack(Origin(i), links[Origin(i)].h_depth)
                IN [n \in 1..Len(pcs) |-> FormatFrame(Frame(pcs[n]))]
    /\ Len(stacks) = Cardinality({i \in LinkIds : links[i].h_captured})

C10_Witness ==
    \E i \in LinkIds :
        /\ links[i].h_op = "Wrap"
        /\ IsAerr(links[i].h_cause)
        /\ HasStack(links[links[i].h_cause.id])
        /\ ~links[i].h_skip
        /\ Origin(i) # i
        /\ LogValue(links[i]).stacktrace = Traces(links[Origin(i)])

\* ------------------------------------------------- claims about rendering
\* The rendered record v has the field f.
HasField(v, f) == \E n \in 1..Len(v.order) : v.order[n] = f

\* The formatted frames of a link's own stack, top first; none for no stack.
FramesOf(e) ==
    [n \in 1..Len(StackOf(e)) |-> FormatFrame(Frame(StackOf(e)[n]))]

\* The formatted frames of the links of a chain, outermost link first.
RECURSIVE ChainFrames(_)
ChainFrames(err) ==
    IF IsAerr(err)
    THEN FramesOf(links[err.id]) \o ChainFrames(UnwrapErr(err))
    ELSE <<>>

\* s without the repeats: every string once, where it first stands.
RECURSIVE Dedup(_)
Dedup(s) ==
    IF s = <<>> THEN <<>>
    ELSE LET r == Dedup(SubSeq(s, 1, Len(s) - 1))
             x == s[Len(s)]
         IN IF \E n \in 1..Len(r) : r[n] = x THEN r ELSE Append(r, x)

\* C11: the rendered stack trace of a chain holds every distinct formatted
\* frame of the chain's stacks exactly once, links outermost first and frames
\* top to bottom, also when several links hold the same stack or a stack holds
\* two frames of the same text.  (Stated for errors that hold a stack.)
C11_FramesOnce ==
    \A i \in LinkIds :
        HasStack(links[i])
        => LogValue(links[i]).stacktrace = Dedup(ChainFrames(Ref(i)))

\* C12: stack capture is off by default.  With no call of StackTrace() at all,
\* an error that Err or Wrap returned holds no stack and its logged record has
\* no stacktrace field.
C12_CaptureOffByDefault ==
    \A i \in LinkIds :
        links[i].h_op \in {"Wrap", "Err"}
        => /\ ~HasStack(links[i])
           /\ ~HasField(LogValue(links[i]), "stacktrace")

\* --------------------------------------- claims about the flattened revision
\* The records the flattened LogValue emits for link i, and the one of link i
\* itself.
Records(i) == FlatLogValue(Ref(i)).errors
OwnRecord(i) == Records(i)[1]
Toggles == {"StackTrace", "WithoutStack"}

\* C13, as claimed: an error Err returned with capture switched off holds no
\* stack and its logged output, the whole of it, has no stacktrace field; one
\* returned with capture switched on holds a stack and its output has the
\* field.
C13_NoStacktraceInOutput ==
    \A i \in LinkIds :
        links[i].h_op = "Err" =>
            IF links[i].h_skip
            THEN /\ ~HasStack(links[i])
                 /\ \A n \in 1..Len(Records(i)) :
                        "stacktrace" \notin Records(i)[n].keys
            ELSE /\ HasStack(links[i])
                 /\ \E n \in 1..Len(Records(i)) :
                        "stacktrace" \in Records(i)[n].keys

\* What holds in every state: a toggle leaves the flag as it says, and an Err
\* link follows the flag its builder held.
C13_FlagDecides ==
    /\ call.op = "WithoutStack" => builder[1].skipStack
    /\ call.op = "StackTrace" => ~builder[1].skipStack
    /\ \A i \in LinkIds :
        links[i].h_op = "Err" =>
            IF links[i].h_skip
            THEN /\ ~HasStack(links[i])
                 /\ "stacktrace" \notin OwnRecord(i).keys
                 /\ ~IsAerr(links[i].cause) =>
                        \A n \in 1..Len(Records(i)) :
                            "stacktrace" \notin Records(i)[n].keys
            ELSE /\ HasStack(links[i])
                 /\ "stacktrace" \in OwnRecord(i).keys
                 /\ OwnRecord(i).stacktrace # <<>>

\* What holds of every step: no call but a toggle changes a builder's flag.
C13_OnlyTogglesSetFlag ==
    (/\ builder # <<>> /\ builder' # <<>>
     /\ builder'[1].attributes = builder[1].attributes
     /\ call'.op \notin Toggles)
    => builder'[1].skipStack = builder[1].skipStack

\* C13, amended: the last stack toggle before Err decides.  After
\* WithoutStack() the error holds no stack and its own record has no
\* stacktrace field (nor has any record, unless the cause is a composite error:
\* a cause's record keeps the cause's stacktrace); after StackTrace() the error
\* holds a non-empty stack and its record has the stacktrace field.
C13_LastToggleDecides ==
    []C13_FlagDecides /\ [][C13_OnlyTogglesSetFlag]_vars

\* One builder, finalized by Err once after WithoutStack() and once more
\* after a later StackTrace().
C13_Witness ==
    \E i, j \in LinkIds :
        /\ i < j
        /\ links[i].attributes = links[j].attributes
        /\ links[i].h_op = "Err" /\ links[j].h_op = "Err"
        /\ links[i].h_skip /\ ~HasStack(links[i])
        /\ "stacktrace" \notin OwnRecord(i).keys
        /\ ~links[j].h_skip /\ HasStack(links[j])
        /\ "stacktrace" \in OwnRecord(j).keys

\* ------------------------------------------------ claims about immutability
\* What a step leaves of the errors that exist before it: every field of the
\* struct, the content of the attribute map, the content of the stack.
LinksUntouched ==
    /\ Len(links') >= Len(links)
    /\ \A i \in 1..Len(links) :
        /\ links'[i] = links[i]
        /\ maps'[links[i].attributes] = maps[links[i].attributes]
        /\ links[i].stack # 0 => stacks'[links[i].stack] = stacks[links[i].stack]

\* C14: finalized links are immutable.  No later call on the builder (Code,
\* Message, With, StackTrace, Err, Wrap) changes the message, code, attributes
\* or stack of an error that Err or Wrap has already returned; in particular a
\* later With(k, v) adds or changes no key of it.
C14_FinalizedImmutable == [][LinksUntouched]_vars

\* ------------------------------------- claims about the two log renderings
\* The errors Wrap or Err returned (a builder handed on as it is, is not one).
FinalizedIds == {i \in LinkIds : links[i].h_op \in {"Wrap", "Err"}}

\* C15: rendering never fails.  A nil error renders to nothing, with no
\* field; every error built with Code, Message, With, StackTrace, Err and Wrap
\* renders to a result, by slog's LogValue and by each entry point of the
\* zerolog formatter, with no panic.
C15_RenderingNeverFails ==
    /\ NilLogValue.order = <<>>
    /\ MarshalZerologObject(NilErr) = NoFields
    /\ \A i \in FinalizedIds :
        /\ HasField(LogValue(links[i]), "message")
        /\ ~AerrMarshalFunc(Ref(i)).panics
        /\ ~AerrStackMarshaler(Ref(i)).panics
        /\ ~MarshalZerologObject(Ref(i)).panics

\* C16: an error with no captured stack renders no stack.  Traces() of an
\* error whose stack is empty is the empty sequence, with no placeholder
\* frame, and the rendered record has no stacktrace field.
C16_NoPlaceholderFrame ==
    \A i \in FinalizedIds :
        StackOf(links[i]) = <<>>
        => /\ Traces(links[i]) = <<>>
           /\ ~HasField(LogValue(links[i]), "stacktrace")

\* C17: an attribute set to nil anywhere in a chain is absent from the
\* rendered attributes, in slog's LogValue and in the zerolog marshaller alike;
\* an attribute with another value is rendered with that value.
C17_NilValueAbsent ==
    \A i \in FinalizedIds : \A k \in Keys :
        LET v == GetAttributes(links[i])[k]
            shown == IF v = Nil THEN Absent ELSE v
        IN /\ LogValue(links[i]).attributes[k] = shown
           /\ ~MarshalZerologObject(Ref(i)).panics
              => MarshalZerologObject(Ref(i)).attributes[k] = shown

\* The place of a field in the order code, message, attributes, stacktrace.
Rank(f) ==
    CASE f = "code" -> 1
      [] f = "message" -> 2
      [] f = "attributes" -> 3
      [] f = "stacktrace" -> 4

InFixedOrder(order) ==
    \A m, n \in 1..Len(order) : m < n => Rank(order[m]) < Rank(order[n])

\* C18: the rendered record lists its fields in the order code, message,
\* attributes, stacktrace, each present only when it is not empty; no rendering
\* lists them in another order.
C18_FixedFieldOrder ==
    \A i \in FinalizedIds :
        LET v == LogValue(links[i]) IN
        /\ InFixedOrder(v.order)
        /\ InFixedOrder(MarshalZerologObject(Ref(i)).order)
        /\ HasField(v, "code") <=> v.code # ""
        /\ HasField(v, "message") <=> v.message # <<>>
        /\ HasField(v, "attributes") <=> MapKeys(v.attributes) # {}
        /\ HasField(v, "stacktrace") <=> v.stacktrace # <<>>

\* C19: the zerolog rendering and the slog rendering of an error carry the
\* same data.  For every error Err or Wrap returned, the zerolog marshaller
\* yields a record with the code, the message and the attributes of LogValue,
\* and the stack marshaller yields the frames of LogValue.
C19_SameData ==
    \A i \in FinalizedIds :
        LET v == LogValue(links[i])
            z == MarshalZerologObject(Ref(i))
        IN /\ ~AerrMarshalFunc(Ref(i)).panics
           /\ AerrMarshalFunc(Ref(i)).object
           /\ ~z.panics
           /\ z.code = v.code
           /\ HasField(z, "message") <=> HasField(v, "message")
           /\ z.attributes = v.attributes
           /\ AerrStackMarshaler(Ref(i)).stack = v.stacktrace

\* The number of entries of the chain of link i: its composite links, and the
\* plain error it ends in if it ends in one.
Entries(i) ==
    Len(ChainLinks(Ref(i))) + (IF Terminal(Ref(i)) = PlainErr THEN 1 ELSE 0)

C23_AsAerrSucceeds ==
    /\ \A i \in LinkIds :
          LET r == AsAerr(Ref(i)) IN
          /\ ~r.panics
          /\ r.ok
          /\ r.e.code = links[i].code
          /\ r.e.attributes = links[i].attributes
          /\ r.e.stack = links[i].stack
    /\ \A err \in {NilErr, PlainErr} :
          ~AsAerr(err).panics /\ ~AsAerr(err).ok

\* --------------------------------------------------------------- C24
\* The cause Wrap was given had no stack to take over: a plain error, or a
\* composite error whose stack is empty.
NothingToReuse(i) ==
    \/ ~IsAerr(links[i].h_cause)
    \/ ~HasStack(links[links[i].h_cause.id])

\* C24: when there is no stack to reuse, Wrap captures as Err does: with
\* capture enabled on the builder, Wrap over a plain error and Wrap over a
\* composite error with an empty stack both give the new link a freshly
\* captured, non-empty stack; with capture disabled the new link has none.
C24_WrapCapturesLikeErr ==
    \A i \in LinkIds :
        links[i].h_op = "Wrap" /\ NothingToReuse(i)
        => IF ~links[i].h_skip
           THEN links[i].h_captured /\ HasStack(links[i])
           ELSE links[i].stack = 0

\* --------------------------------------------------------------- C25
\* C25: Wrap resolves no code at construction: the GetCode() of a link made
\* by Wrap over a composite cause is the code the builder itself was given,
\* or empty when it was given none, whatever code the cause carries.
C25_WrapKeepsOwnCode ==
    \A i \in LinkIds :
        links[i].h_op = "Wrap" /\ IsAerr(links[i].h_cause)
        => GetCode(links[i]) = links[i].h_code

\* --------------------------------------------------------------- C28
\* A step in which Wrap or Err was called.
FinalizerStep == call'.op \in {"Wrap", "Err"} /\ builder # <<>>

\* The builder's message, code, flag and map reference, and the content of
\* its map, are after the step what they were before it.
BuilderUntouched ==
    /\ builder' = builder
    /\ maps'[builder[1].attributes] = maps[builder[1].attributes]

\* C28: Wrap and Err leave the builder unchanged: after either call the
\* builder's message, code, capture flag and attribute map are exactly what
\* they were before it, so a second error made from the same builder carries
\* none of the first cause's attributes.
C28_BuilderUnchanged == [][FinalizerStep => BuilderUntouched]_vars

\* --------------------------------------------------------------- C29
\* The composite cause handed to the finalizer is after the step what it was
\* before it: its fields, the content of its map, its stack, and everything
\* rendered from it.
CauseUntouched ==
    \A c \in LinkIds :
    call'.cause = Ref(c) =>
    /\ links'[c] = links[c]
    /\ maps'[links[c].attributes] = maps[links[c].attributes]
    /\ StackOf(links[c])' = StackOf(links[c])
    /\ Error(links[c])' = Error(links[c])
    /\ GetCode(links[c])' = GetCode(links[c])
    /\ GetAttributes(links[c])' = GetAttributes(links[c])
    /\ Traces(links[c])' = Traces(links[c])
    /\ LogValue(links[c])' = LogValue(links[c])

\* C29: Wrap and Err never modify the cause: after e2 := b.Wrap(e1) or
\* b.Err(e1), e1's message, code, attributes, stack and cause are unchanged,
\* and rendering e1 on its own gives the same result before and after.
C29_CauseUnchanged == [][FinalizerStep => CauseUntouched]_vars

\* Wrap was just called on a composite cause that carries an attribute, by
\* the builder that cause was made from: the new link and the cause hold the
\* same map.
C29_Witness ==
    /\ call.op = "Wrap" /\ IsAerr(call.cause) /\ IsAerr(call.ret)
    /\ links[call.ret.id].attributes = links[call.cause.id].attributes
    /\ MapKeys(GetAttributes(links[call.cause.id])) # {}
    /\ links[call.ret.id].msg # links[call.cause.id].msg

\* --------------------------------------------------------------- C30
\* Every link of the chain of link i but the innermost was made by Wrap; the
\* innermost was made by Err or Wrap over a plain or nil cause.
WrapChain(i) ==
    LET ch == ChainLinks(Ref(i)) IN
    /\ \A n \in 1..(Len(ch) - 1) : links[ch[n]].h_op = "Wrap"
    /\ links[ch[Len(ch)]].h_op \in {"Wrap", "Err"}
    /\ ~IsAerr(links[ch[Len(ch)]].h_cause)

\* The positions in the chain of link i whose record has a stacktrace field.
WithStacktrace(i) ==
    {n \in 1..Len(ChainLinks(Ref(i))) :
        "stacktrace" \in FlatLogValue(Ref(i)).errors[n].keys}

\* A link that holds a stack it did not capture.
Reuses(l) == l.stack # 0 /\ ~l.h_captured

\* C30: flattened rendering of a chain whose innermost link came from Err or
\* Wrap over a plain or nil cause and whose outer links all came from Wrap:
\* at most one record carries a stacktrace field, and it is the record of the
\* innermost link that captured a stack; the links that reuse that stack are
\* marked skip-stack and their records have no stacktrace.
C30_OneStacktrace ==
    \A i \in LinkIds :
        WrapChain(i) =>
        LET ch == ChainLinks(Ref(i)) IN
        /\ Cardinality(WithStacktrace(i)) <= 1
        /\ \A n \in 1..Len(ch) :
              /\ n \in WithStacktrace(i) <=> links[ch[n]].h_captured
              /\ links[ch[n]].h_captured
                 => \A m \in (n + 1)..Len(ch) : ~HasStack(links[ch[m]])
              /\ Reuses(links[ch[n]])
                 => /\ links[ch[n]].skipStack
                    /\ n \notin WithStacktrace(i)

\* Wrap over a link that captured: two records, the stacktrace on the inner.
C30_Witness ==
    \E i \in LinkIds :
        /\ WrapChain(i)
        /\ Len(ChainLinks(Ref(i))) = 2
        /\ Reuses(links[i])
        /\ WithStacktrace(i) = {2}
        /\ Len(FlatLogValue(Ref(i)).errors[2].stacktrace) > 0

\* --------------------------------------------------------------- C26
\* The walk of LogValue over a heap h of links, as a loop: the number of
\* iterations watched, more than a chain of MaxLinks links over a plain
\* error takes.
WalkFuel == MaxLinks + 2

\* What a watched walk shows in place of a node when the loop is still
\* running after WalkFuel iterations.
Running == [kind |-> "running", id |-> 0]

\* A loop body that never moves on.
WalkStepStays(h, current) == current

\* One iteration's move: current = aErr.cause for an *aerr, break (nothing
\* left to visit) for a plain error.
WalkStep(h, current) ==
    IF IsAerr(current) THEN h[current.id].cause ELSE NilErr

\* for current != nil { ... }: the nodes the loop visits from current on, in
\* order.  The loop keeps `current` and the records gathered so far, and
\* nothing else: whether it stops depends on the heap alone.
RECURSIVE WalkNodes(_, _, _)
WalkNodes(h, current, fuel) ==
    IF current = NilErr THEN <<>>
    ELSE IF fuel = 0 THEN <<Running>>
    ELSE <<current>> \o WalkNodes(h, WalkStep(h, current), fuel - 1)

\* The walk from err over heap h comes to an end.
WalkEnds(h, err) ==
    LET w == WalkNodes(h, err, WalkFuel) IN w[Len(w)] # Running

\* No cycle of cause references: every composite cause is an older link.
Acyclic == \A i \in LinkIds : IsAerr(links[i].cause) => links[i].cause.id < i

\* The walk from every link ends, at a link whose cause is nil or at a plain
\* error, after visiting each node once; it gathers one record per node.
WalkVisitsOnce ==
    \A i \in LinkIds :
        LET w == WalkNodes(links, Ref(i), WalkFuel) IN
        /\ WalkEnds(links, Ref(i))
        /\ \A m, n \in 1..Len(w) : m # n => w[m] # w[n]
        /\ WalkStep(links, w[Len(w)]) = NilErr
        /\ w[Len(w)] = PlainErr \/ IsAerr(w[Len(w)])
        /\ Len(FlatErrors(Ref(i))) = Len(w)

\* The guard: were a link's cause to lead back to the link itself, the walk
\* would meet a node it has visited and stop there.
StopsAtRepeat ==
    \A i \in LinkIds :
        WalkEnds([links EXCEPT ![i].cause = Ref(i)], Ref(i))

RenderStep == threads' # threads

\* The builder and the heap of maps, stacks and links stay as they are.
ChainUnchanged == UNCHANGED <<builder, maps, stacks, links>>

\* The goroutine has returned from LogValue.
RenderDone(t) == threads[t].pc = "done"

\* What a goroutine's LogValue returned is what LogValue of that link gives
\* when it runs alone: message, Traces(), GetCode(), GetAttributes() and the
\* order of the fields.
C21_SameAsAlone ==
    \A t \in Threads :
        RenderDone(t) => threads[t].res = LogValue(links[threads[t].link])

\* C21: concurrent rendering of the same finalized chain is safe: LogValue,
\* Traces, GetCode and GetAttributes only read the chain, so under every
\* interleaving of concurrent renders each render returns what a render run
\* alone returns, and the chain's links are unchanged afterwards.
C21_ConcurrentRendersSafe ==
    []C21_SameAsAlone /\ [][RenderStep => ChainUnchanged]_vars

\* Two goroutines were inside LogValue of the same link at the same time and
\* both have returned: a message, two frames and an attribute each.
C21_Witness ==
    \E t, u \in Threads :
        /\ t # u
        /\ RenderDone(t) /\ RenderDone(u)
        /\ threads[t].h_conc /\ threads[u].h_conc
        /\ threads[t].link = threads[u].link
        /\ Len(threads[t].res.stacktrace) = 2
        /\ threads[t].res.stacktrace[1] # threads[t].res.stacktrace[2]
        /\ MapKeys(threads[t].res.attributes) # {}
        /\ threads[t].res.message # <<>>

\* --------------------------------------------------------------- C22
\* C22: rendering is deterministic: rendering the same unchanged chain twice
\* gives identical results, including the order in which the record's
\* fields are emitted.
C22_Deterministic ==
    \A t, u \in Threads :
        /\ RenderDone(t) /\ RenderDone(u)
        /\ threads[t].link = threads[u].link
        => threads[t].res = threads[u].res

\* --------------------------------------------------------------- C27
\* The goroutine holds a buffer it took from the pool.
Holding(t) == threads[t].buf # 0

\* The strings the goroutine's Traces has built by the time it is at pc: one
\* per frame it is done with.
StringsBuilt(th) ==
    IF th.pc \in {"get", "file", "func", "copy"} THEN th.n - 1
    ELSE IF th.pc = "put" THEN th.n
    ELSE IF th.pc \in {"rest", "done"}
         THEN Len(FramesToFormat(links[th.link]))
         ELSE 0

\* C27: the pooled scratch buffers follow a strict acquire/release
\* discipline: each frame is formatted by acquiring one buffer, building
\* exactly one string in it, copying that string out and releasing the
\* buffer; no buffer is ever held by two formatters at once, and a string
\* already returned is never changed by a later reuse of its buffer.
C27_PoolDiscipline ==
    \A t \in Threads :
        LET th == threads[t] IN
        /\ Holding(t) <=> th.pc \in {"file", "func", "copy", "put"}
        /\ Holding(t)
           => /\ th.buf \notin pool
              /\ \A u \in Threads \ {t} : threads[u].buf # th.buf
        /\ Len(th.out) = StringsBuilt(th)
        /\ \A k \in 1..Len(th.out) :
              Text(th.out[k]) =
                  FormatFrame(Frame(FramesToFormat(links[th.link])[k]))
        /\ RenderDone(t) => th.res.stacktrace = Traces(links[th.link])

\* The only buffer there is holds a frame that goroutine t has just
\* formatted, after goroutine u built a different string in it and returned
\* that string.
C27_Witness ==
    \E t, u \in Threads :
        /\ t # u
        /\ Len(bufs) = 1
        /\ threads[t].pc = "copy"
        /\ Len(threads[u].out) > 0
        /\ \A k \in 1..Len(threads[u].out) :
              Text(threads[u].out[k]) # bufs[threads[t].buf]

====
